---- MODULE Spec2Model ----
(***************************************************************************)
(* A model of calcam's ray tracing module (src/calcam/raytrace.py): the    *)
(* RayCaster.raycast_pixels loop and the RayData container (save, load,    *)
(* get_ray_lengths, get_ray_directions).                                   *)
(*                                                                         *)
(* Numbers.  Pixel coordinates are kept in units of half a pixel, so that  *)
(* the half-integer pixel centres of a binned full-chip cast are integers  *)
(* of the model: Px(n) is pixel n, Px(n) + 1 is pixel n + 0.5.  3-D points *)
(* are triples of integers (metres).  The floating point values that are   *)
(* not numbers are distinguished integers: NaN, Inf, NegInf.  Every       *)
(* operator that models floating point arithmetic treats them as IEEE-754  *)
(* does.                                                                   *)
(***************************************************************************)
EXTENDS Integers, Sequences, FiniteSets, TLC

VARIABLES
    caster,         \* the RayCaster object: verbose, fitresults, vtkCellLocator, ...
    pc,             \* raycast_pixels: "idle", "loop", "done" or "raised"
    raised,         \* the exception the last call raised, or None
    Results,        \* raycast_pixels: the RayData being built / returned
    orig_shape,     \* raycast_pixels: shape of the pixel arrays as given
    valid_mask,     \* raycast_pixels: flat validity mask
    LOSDir,         \* raycast_pixels: flat array of line-of-sight directions
    inds,           \* raycast_pixels: the indices the shuffled loop has yet to visit
    ind,            \* raycast_pixels: the index the loop visited last
    pos,            \* raycast_pixels: the buffer IntersectWithLine writes its hit to
    clock,          \* time.time() - starttime at its latest reading
    etime_printed,  \* raycast_pixels: the flag of the progress estimate
    n_done,         \* raycast_pixels: rays cast so far
    est_log,        \* every value est_time was given, in order: <<elapsed, n_done, size>>
    printed,        \* every estimate that was printed, in order
    calls,          \* every call of IntersectWithLine: <<ind, p1, p2>>
    args,           \* raycast_pixels: the arguments of the call in progress
    rd,             \* a RayData object
    disk,           \* the netCDF file RayData.save wrote, or None
    out             \* the value the last RayData query returned, or None

vars == <<caster, pc, raised, Results, orig_shape, valid_mask, LOSDir, inds, ind,
          pos, clock, etime_printed, n_done, est_log, printed, calls, args,
          rd, disk, out>>

castVars == <<caster, pc, Results, orig_shape, valid_mask, LOSDir, inds, ind,
              pos, clock, etime_printed, n_done, est_log, printed, calls, args>>

dataVars == <<rd, disk, out>>

----------------------------------------------------------------------------
(* Values *)

\* Python's None, where a number may stand, and where an object may stand
None == -777777
NoObj == [none |-> TRUE]
NaN == -999999
Inf == 999999
NegInf == -999998
Uninit == -888888

Px(n) == 2 * n

isnan(v) == v = NaN

IsInf(v) == v = Inf \/ v = NegInf

IsFinite(v) == ~isnan(v) /\ ~IsInf(v)

\* the range of a netCDF 'i4' variable.  A pixel coordinate that holds one of
\* the two ends is that number of pixels, not of half pixels.
I4Max == 2147483647
I4Min == (0 - I4Max) - 1

OffScale(v) == v = I4Min \/ v = I4Max

\* the square of the distance to a coordinate at an end of the 'i4' range: a
\* number above every other squared distance of the model, below Inf
Far == 900000

\* the integers a 'f4' variable holds exactly are those up to 2^24
F4Exact == 16777216

NaN3 == <<NaN, NaN, NaN>>

HasNaN(v) == \E j \in 1..3 : isnan(v[j])

Uninit3 == <<Uninit, Uninit, Uninit>>

\* a + b in floating point, for a, b that are numbers, NaN or +Inf
FAdd(a, b) ==
    IF a = NaN \/ b = NaN THEN NaN
    ELSE IF a = Inf \/ b = Inf THEN Inf
    ELSE IF a = Far \/ b = Far THEN Far
    ELSE a + b

\* a - b, for a, b that are numbers or NaN
FSub(a, b) == IF a = NaN \/ b = NaN THEN NaN ELSE a - b

\* k * a, for a number k and a that is a number or NaN
FScale(k, a) == IF a = NaN THEN NaN ELSE k * a

\* (a - b)**2, for a, b that are numbers, NaN or infinite (inf - inf is NaN)
FSubSq(a, b) ==
    IF a = NaN \/ b = NaN THEN NaN
    ELSE IF IsInf(a) /\ a = b THEN NaN
    ELSE IF IsInf(a) \/ IsInf(b) THEN Inf
    ELSE IF OffScale(a) \/ OffScale(b) THEN (IF a = b THEN 0 ELSE Far)
    ELSE (a - b) * (a - b)

\* a / b, for a, b that are numbers or NaN; the model's quotients are whole
FDiv(a, b) ==
    IF a = NaN \/ b = NaN THEN NaN
    ELSE IF b = 0 THEN (IF a = 0 THEN NaN ELSE Inf)
    ELSE a \div b

VAdd(u, v) == [k \in 1..3 |-> FAdd(u[k], v[k])]

VSub(u, v) == [k \in 1..3 |-> FSub(u[k], v[k])]

VScale(a, u) == [k \in 1..3 |-> FScale(a, u[k])]

VDiv(u, a) == [k \in 1..3 |-> FDiv(u[k], a)]

\* np.sqrt of a sum of squares; the model's rays run along the axes, so every
\* length is a whole number
Sqrt(n) ==
    IF n = NaN THEN NaN
    ELSE CHOOSE r \in 0..n : r * r = n

----------------------------------------------------------------------------
(* numpy arrays: a shape (1-D or 2-D) and the elements in C (row-major) order *)

Size(shape) == IF Len(shape) = 1 THEN shape[1] ELSE shape[1] * shape[2]

Array(shape, data) == [shape |-> shape, data |-> data]

\* np.reshape(a, np.size(a), order='F'): the first axis varies fastest
FlattenF(a) ==
    IF Len(a.shape) = 1 THEN a.data
    ELSE LET r == a.shape[1]
             c == a.shape[2]
         IN  [k \in 1..(r * c) |-> a.data[((k - 1) % r) * c + ((k - 1) \div r) + 1]]

\* np.reshape(flat, shape, order='F')
UnflattenF(flat, shape) ==
    IF Len(shape) = 1 THEN Array(shape, flat)
    ELSE LET r == shape[1]
             c == shape[2]
         IN  Array(shape, [m \in 1..(r * c) |->
                              flat[((m - 1) \div c) + ((m - 1) % c) * r + 1]])

\* np.shape(a); the shape of None is ()
Shape(a) == IF a = NoObj THEN <<>> ELSE a.shape

\* a.flatten(): C order
FlattenC(a) == a.data

\* np.linspace(start, stop, num), num already an integer
Linspace(start, stop, num) ==
    IF num = 1 THEN <<start>>
    ELSE [i \in 1..num |-> start + ((i - 1) * (stop - start)) \div (num - 1)]

\* np.meshgrid(xl, yl): two arrays of shape (len(yl), len(xl))
MeshgridX(xl, yl) ==
    Array(<<Len(yl), Len(xl)>>,
          [m \in 1..(Len(yl) * Len(xl)) |-> xl[((m - 1) % Len(xl)) + 1]])

MeshgridY(xl, yl) ==
    Array(<<Len(yl), Len(xl)>>,
          [m \in 1..(Len(yl) * Len(xl)) |-> yl[((m - 1) \div Len(xl)) + 1]])

----------------------------------------------------------------------------
(* The collaborators of raytrace.py: the camera fit, its coordinate         *)
(* transformer, and the CAD model with its vtkCellLocator.                  *)

\* CoordTransformer.original_to_display_coords, for one coordinate pair: the
\* actions are applied in order
RECURSIVE original_to_display_pixel(_, _, _)
original_to_display_pixel(transform, p, k) ==
    IF k > Len(transform.transform_actions) THEN p
    ELSE LET a == transform.transform_actions[k]
             flip(v, n) == IF isnan(v) THEN NaN
                           ELSE IF v = Inf THEN NegInf
                           ELSE IF v = NegInf THEN Inf
                           ELSE Px(n - 1) - v
             q == IF a = "flip_left_right" THEN <<flip(p[1], transform.x_pixels), p[2]>>
                  ELSE IF a = "flip_up_down" THEN <<p[1], flip(p[2], transform.y_pixels)>>
                  ELSE p
         IN  original_to_display_pixel(transform, q, k + 1)

original_to_display_x(transform, x, y) ==
    Array(x.shape, [m \in 1..Len(x.data) |->
                       original_to_display_pixel(transform, <<x.data[m], y.data[m]>>, 1)[1]])

original_to_display_y(transform, x, y) ==
    Array(y.shape, [m \in 1..Len(y.data) |->
                       original_to_display_pixel(transform, <<x.data[m], y.data[m]>>, 1)[2]])

\* the unit vectors the model's sight lines run along
Dirs == <<<<0, 1, 0>>, <<0, 0, 1>>>>

\* fitresults.get_los_direction for one pixel: a unit vector that depends on the
\* pixel; an infinite coordinate gives no direction (inf / inf)
los_direction(fit, x, y) ==
    IF IsFinite(x) /\ IsFinite(y) THEN Dirs[(((x + y) \div 2) % Len(Dirs)) + 1]
    ELSE NaN3

get_los_direction(fit, xs, ys) == [k \in 1..Len(xs) |-> los_direction(fit, xs[k], ys[k])]

\* fitresults.get_pupilpos: the pupil position, once per pixel
get_pupilpos(fit, xs, ys) == [k \in 1..Len(xs) |-> fit.pupilpos]

\* vtkCellLocator.IntersectWithLine(p1, p2, ...): the return value, and the point
\* written to the pos buffer on a hit.  locator[d] is the distance at which the
\* surface crosses the sight line along Dirs[d] (0: it does not).
IntersectWithLine(cad, p1, p2) ==
    LET hits == {d \in 1..Len(Dirs) : p2 = VAdd(p1, VScale(cad.max_ray_length, Dirs[d]))
                              /\ cad.vtkCellLocator[d] # 0}
    IN  IF hits = {} THEN [retval |-> 0, pos |-> Uninit3]
        ELSE LET d == CHOOSE e \in hits : TRUE
             IN  [retval |-> 1, pos |-> VAdd(p1, VScale(cad.vtkCellLocator[d], Dirs[d]))]

----------------------------------------------------------------------------
(* RayCaster.raycast_pixels *)

\* the number of points np.linspace is asked for, (1 + float(n - 1)) / binning:
\* a float, which linspace truncates to an integer
GridCount(n, binning) == n \div binning

\* the pixel centres along one axis of n pixels: np.linspace((binning-1.)/2,
\* float(n-1) - (binning-1.)/2, n/binning), in half pixels
GridCentres(n, binning) ==
    Linspace(binning - 1, Px(n - 1) - (binning - 1), GridCount(n, binning))

\* ValidPixel with the test of y forgotten
ValidPixelXOnly(x, y) == ~isnan(x)

\* a pixel's entry of valid_mask
ValidPixel(x, y) == ~isnan(x) /\ ~isnan(y)

\* lines 89-136: the pixel arrays, the validity mask and the RayData as they are
\* when the loop starts.  Called with x and y both None (NoObj), or with two arrays of
\* one shape.
Prepare(fit, a) ==
    LET fullchip == a.x = NoObj /\ a.y = NoObj
        xl == IF a.Coords = "display"
              THEN GridCentres(fit.image_display_shape[1], a.binning)
              ELSE GridCentres(fit.transform.x_pixels, a.binning)
        yl == IF a.Coords = "display"
              THEN GridCentres(fit.image_display_shape[2], a.binning)
              ELSE GridCentres(fit.transform.y_pixels, a.binning)
        x0 == IF fullchip THEN MeshgridX(xl, yl) ELSE a.x
        y0 == IF fullchip THEN MeshgridY(xl, yl) ELSE a.y
        mask0 == IF fullchip THEN [m \in 1..Len(x0.data) |-> TRUE]
                 ELSE [m \in 1..Len(x0.data) |-> ValidPixel(x0.data[m], y0.data[m])]
        x == IF a.Coords = "original" THEN original_to_display_x(fit.transform, x0, y0)
             ELSE x0
        y == IF a.Coords = "original" THEN original_to_display_y(fit.transform, x0, y0)
             ELSE y0
        xz == Array(x.shape, [m \in 1..Len(x.data) |-> IF mask0[m] THEN x.data[m] ELSE 0])
        yz == Array(y.shape, [m \in 1..Len(y.data) |-> IF mask0[m] THEN y.data[m] ELSE 0])
        xf == FlattenF(xz)
        yf == FlattenF(yz)
        n == Len(xf)
    IN  [orig_shape |-> x.shape,
         valid_mask |-> FlattenF(Array(x.shape, mask0)),
         LOSDir |-> get_los_direction(fit, xf, yf),
         Results |-> [ResultType |-> "PixelRayCast",
                      fullchip |-> fullchip,
                      x |-> Array(<<n>>, xf),
                      y |-> Array(<<n>>, yf),
                      transform |-> fit.transform,
                      binning |-> IF fullchip THEN a.binning ELSE None,
                      ray_end_coords |-> Array(<<n>>, [k \in 1..n |-> Uninit3]),
                      ray_start_coords |-> Array(<<n>>, get_pupilpos(fit, xf, yf))]]

\* RayEnd that stores the pos buffer whatever IntersectWithLine returned
RayEndBuffer(res, buffer, rayend) == buffer

\* the end point the loop stores for a ray: the hit if there is one, else the
\* end of the segment
RayEnd(res, buffer, rayend) == IF res.retval # 0 THEN buffer ELSE rayend

\* CastPixel that stores the pos buffer as it was before the call wrote to it
CastPixelStale(st, i, mask, los, cad) ==
    LET R == st.Results
        start == R.ray_start_coords.data[i]
        rayend == VAdd(start, VScale(cad.max_ray_length, los[i]))
        res == IntersectWithLine(cad, start, rayend)
    IN  IF ~mask[i]
        THEN [st EXCEPT !.Results.ray_end_coords.data[i] = NaN3,
                        !.Results.ray_start_coords.data[i] = NaN3]
        ELSE [st EXCEPT !.Results.ray_end_coords.data[i] = RayEnd(res, st.pos, rayend),
                        !.pos = IF res.retval # 0 THEN res.pos ELSE st.pos,
                        !.calls = st.calls \cup {<<i, start, rayend>>}]

\* lines 159-175: one pass of the loop body, for index i.  st holds what the body
\* reads and writes: Results, the pos buffer, and the calls made so far.
CastPixel(st, i, mask, los, cad) ==
    LET R == st.Results
        start == R.ray_start_coords.data[i]
        rayend == VAdd(start, VScale(cad.max_ray_length, los[i]))
        res == IntersectWithLine(cad, start, rayend)
        buffer == IF res.retval # 0 THEN res.pos ELSE st.pos
    IN  IF ~mask[i]
        THEN [st EXCEPT !.Results.ray_end_coords.data[i] = NaN3,
                        !.Results.ray_start_coords.data[i] = NaN3]
        ELSE [st EXCEPT !.Results.ray_end_coords.data[i] = RayEnd(res, buffer, rayend),
                        !.pos = buffer,
                        !.calls = st.calls \cup {<<i, start, rayend>>}]

\* lines 205-211: the invalid pixels' coordinates become NaN and every array is
\* given the shape of the input
Finalize(R, mask, shape) ==
    LET nanned(v) == [k \in 1..Len(v) |-> IF mask[k] THEN v[k] ELSE NaN]
    IN  [R EXCEPT !.x = UnflattenF(nanned(R.x.data), shape),
                  !.y = UnflattenF(nanned(R.y.data), shape),
                  !.ray_end_coords = UnflattenF(R.ray_end_coords.data, shape),
                  !.ray_start_coords = UnflattenF(R.ray_start_coords.data, shape)]

\* the loop run over the indices in the order given
RECURSIVE CastInOrder(_, _, _, _, _)
CastInOrder(st, order, mask, los, cad) ==
    IF order = <<>> THEN st
    ELSE CastInOrder(CastPixel(st, Head(order), mask, los, cad), Tail(order), mask, los, cad)

\* raycast_pixels with the loop run in index order (no shuffle): the RayData it
\* returns
RaycastPixels(fit, cad, a) ==
    LET p == Prepare(fit, a)
        n == Len(p.valid_mask)
        st == CastInOrder([Results |-> p.Results, pos |-> <<0, 0, 0>>, calls |-> {}],
                          [k \in 1..n |-> k], p.valid_mask, p.LOSDir, cad)
    IN  Finalize(st.Results, p.valid_mask, p.orig_shape)

----------------------------------------------------------------------------
(* The inputs the model draws from *)

MaxPix == 2
MaxBinning == 2
Tick == 6
MaxClock == 18

\* program constants of the progress estimate
EstimateAfter == 10
ReportAbove == 15

Transform(w, h, actions) ==
    [x_pixels |-> w, y_pixels |-> h, pixel_aspectratio |-> 1, transform_actions |-> actions]

Fit(w, h, actions) ==
    [image_display_shape |-> <<w, h>>, transform |-> Transform(w, h, actions),
     pupilpos |-> <<1, 0, 0>>]

Fits == {Fit(2, 2, <<>>), Fit(3, 2, <<"flip_up_down", "flip_left_right">>)}

CADModels ==
    {[machine_name |-> "machine", max_ray_length |-> 3, vtkCellLocator |-> l] :
        l \in [1..Len(Dirs) -> {0, 2}]}

\* the pixels of an explicit batch: on the chip, far off, NaN in x, NaN in y,
\* infinite
Pixels == {<<0, 0>>, <<Px(9), Px(8)>>, <<NaN, Px(1)>>, <<Px(1), NaN>>, <<Inf, 0>>}

Batches == UNION {[1..n -> Pixels] : n \in 1..MaxPix}

XOf(b) == Array(<<Len(b)>>, [k \in 1..Len(b) |-> b[k][1]])

YOf(b) == Array(<<Len(b)>>, [k \in 1..Len(b) |-> b[k][2]])

CoordSystems == {"display", "original"}

FullChipArgs ==
    {[x |-> NoObj, y |-> NoObj, binning |-> b, Coords |-> c] :
        b \in 1..MaxBinning, c \in CoordSystems}

BatchArgs ==
    {[x |-> XOf(b), y |-> YOf(b), binning |-> 1, Coords |-> c] :
        b \in Batches, c \in CoordSystems}

\* x and y of different shapes: y left out, or one pixel short
MismatchArgs ==
    {[x |-> XOf(b), y |-> NoObj, binning |-> 1, Coords |-> "display"] : b \in Batches}
    \cup {[x |-> XOf(b), y |-> YOf(Tail(b)), binning |-> 1, Coords |-> "display"] :
             b \in {c \in Batches : Len(c) > 1}}

----------------------------------------------------------------------------
(* The RayCaster object and the raycast_pixels call *)

\* RayCaster.__init__ and RayData.__init__
NewRayData ==
    [ResultType |-> "None", fullchip |-> None, x |-> NoObj, y |-> NoObj,
     transform |-> NoObj, binning |-> None,
     ray_end_coords |-> NoObj, ray_start_coords |-> NoObj]

NoArgs == [x |-> NoObj, y |-> NoObj, binning |-> 1, Coords |-> "display"]

Idle ==
    /\ pc = "idle" /\ raised = "" /\ Results = NewRayData /\ orig_shape = <<>>
    /\ valid_mask = <<>> /\ LOSDir = <<>> /\ inds = {} /\ ind = 0 /\ pos = <<0, 0, 0>>
    /\ clock = 0 /\ etime_printed = FALSE /\ n_done = 0 /\ est_log = <<>>
    /\ printed = <<>> /\ calls = {} /\ args = NoArgs

\* a call that is not running has no locals
NoLocals(a) ==
    /\ Results' = NewRayData /\ args' = a
    /\ orig_shape' = <<>> /\ valid_mask' = <<>> /\ LOSDir' = <<>> /\ inds' = {}
    /\ ind' = 0 /\ pos' = <<0, 0, 0>> /\ calls' = {}
    /\ clock' = 0 /\ etime_printed' = FALSE /\ n_done' = 0
    /\ est_log' = <<>> /\ printed' = <<>>

InitCast ==
    /\ \E v \in BOOLEAN, f \in Fits \cup {NoObj}, c \in CADModels \cup {NoObj} :
          caster = [verbose |-> v, fitresults |-> f, cad |-> c]
    /\ Idle
    /\ rd = NewRayData /\ disk = NoObj /\ out = NoObj

\* RayCaster.set_cadmodel
set_cadmodel(CADModel) ==
    /\ pc = "idle"
    /\ caster' = [caster EXCEPT !.cad = CADModel]
    /\ UNCHANGED <<pc, raised, Results, orig_shape, valid_mask, LOSDir, inds, ind, pos,
                   clock, etime_printed, n_done, est_log, printed, calls, args, dataVars>>

\* RayCaster.set_calibration
set_calibration(FitResults) ==
    /\ pc = "idle"
    /\ caster' = [caster EXCEPT !.fitresults = FitResults]
    /\ UNCHANGED <<pc, raised, Results, orig_shape, valid_mask, LOSDir, inds, ind, pos,
                   clock, etime_printed, n_done, est_log, printed, calls, args, dataVars>>

\* raycast_pixels, lines 84-87: the calibration or the CAD model is not set
RaycastNotConfigured(a) ==
    /\ pc = "idle"
    /\ caster.fitresults = NoObj \/ caster.cad = NoObj
    /\ pc' = "raised"
    /\ raised' = IF caster.fitresults = NoObj THEN "Camera fit results not set in RayCaster!"
                 ELSE "CAD model not set in RayCaster!"
    /\ NoLocals(a)
    /\ UNCHANGED <<caster, dataVars>>

\* raycast_pixels, lines 104-105: x and y of different shapes
RaycastShapeMismatch(a) ==
    /\ pc = "idle"
    /\ caster.fitresults # NoObj /\ caster.cad # NoObj
    /\ ~(a.x = NoObj /\ a.y = NoObj)
    /\ Shape(a.x) # Shape(a.y)
    /\ pc' = "raised"
    /\ raised' = "x and y arrays must be the same shape!"
    /\ NoLocals(a)
    /\ UNCHANGED <<caster, dataVars>>

\* raycast_pixels, lines 84-157: up to the loop
RaycastBegin(a) ==
    /\ pc = "idle"
    /\ caster.fitresults # NoObj /\ caster.cad # NoObj
    /\ (a.x = NoObj /\ a.y = NoObj) \/ Shape(a.x) = Shape(a.y)
    /\ LET p == Prepare(caster.fitresults, a)
       IN  /\ Results' = p.Results
           /\ orig_shape' = p.orig_shape
           /\ valid_mask' = p.valid_mask
           /\ LOSDir' = p.LOSDir
           /\ inds' = 1..Len(p.valid_mask)
    /\ pc' = "loop" /\ raised' = "" /\ args' = a
    /\ ind' = 0 /\ pos' = <<0, 0, 0>> /\ calls' = {}
    /\ clock' = 0 /\ etime_printed' = FALSE /\ n_done' = 0
    /\ est_log' = <<>> /\ printed' = <<>>
    /\ UNCHANGED <<caster, dataVars>>

\* the readings time.time() - starttime may give after the reading t
Later(t) == {u \in {t, t + Tick} : u <= MaxClock}

\* line 178: the estimate is due
EstimateDue(elapsed) == elapsed > EstimateAfter

\* line 180: est_time = elapsed / n_done * size is worth printing
WorthPrinting(est) == est[1] * est[3] > ReportAbove * est[2]

\* the flag set only when the estimate was printed
FlagIfPrinted(est) == WorthPrinting(est)

\* line 192: the flag once est_time has been computed
FlagAfterEstimate(est) == TRUE

\* raycast_pixels, lines 159-192: one pass of the loop, for the index i that the
\* shuffled list gives next
CastStep(i) ==
    /\ pc = "loop"
    /\ i \in inds
    /\ inds' = inds \ {i}
    /\ ind' = i
    /\ LET st == CastPixel([Results |-> Results, pos |-> pos, calls |-> calls],
                           i, valid_mask, LOSDir, caster.cad)
       IN  /\ Results' = st.Results
           /\ pos' = st.pos
           /\ calls' = st.calls
    /\ IF ~valid_mask[i]
       THEN UNCHANGED <<clock, etime_printed, n_done, est_log, printed>>
       ELSE /\ n_done' = n_done + 1
            /\ IF caster.verbose /\ ~etime_printed
               THEN \E t1 \in Later(clock) :
                       IF EstimateDue(t1)
                       THEN \E t2 \in Later(t1) :
                               LET est == <<t2, n_done', Len(valid_mask)>>
                               IN  /\ clock' = t2
                                   /\ est_log' = Append(est_log, est)
                                   /\ printed' = IF WorthPrinting(est)
                                                 THEN Append(printed, est)
                                                 ELSE printed
                                   /\ etime_printed' = FlagAfterEstimate(est)
                       ELSE /\ clock' = t1
                            /\ UNCHANGED <<etime_printed, est_log, printed>>
               ELSE UNCHANGED <<clock, etime_printed, est_log, printed>>
    /\ UNCHANGED <<caster, pc, raised, orig_shape, valid_mask, LOSDir, args, dataVars>>

\* raycast_pixels, lines 194-213: after the loop
RaycastReturn ==
    /\ pc = "loop"
    /\ inds = {}
    /\ Results' = Finalize(Results, valid_mask, orig_shape)
    /\ \E t \in Later(clock) : clock' = IF caster.verbose THEN t ELSE clock
    /\ pc' = "done"
    /\ UNCHANGED <<caster, raised, orig_shape, valid_mask, LOSDir, inds, ind, pos,
                   etime_printed, n_done, est_log, printed, calls, args, dataVars>>

\* raycast_pixels has returned (line 213) or raised: the caller goes on, and
\* nothing is left of the call's locals
RaycastEnd ==
    /\ pc \in {"done", "raised"}
    /\ pc' = "idle" /\ raised' = ""
    /\ NoLocals(NoArgs)
    /\ UNCHANGED <<caster, dataVars>>

CastArgs == FullChipArgs \cup BatchArgs \cup MismatchArgs

NextCast ==
    \/ \E c \in CADModels : set_cadmodel(c)
    \/ \E f \in Fits : set_calibration(f)
    \/ \E a \in CastArgs : RaycastNotConfigured(a)
    \/ \E a \in CastArgs : RaycastShapeMismatch(a)
    \/ \E a \in CastArgs : RaycastBegin(a)
    \/ \E i \in inds : CastStep(i)
    \/ RaycastReturn
    \/ RaycastEnd

SpecCast == InitCast /\ [][NextCast]_vars

----------------------------------------------------------------------------
(* RayData: save and load *)

\* "','".join(actions): a string, as the sequence of its pieces
Join(actions) ==
    [k \in 1..(IF actions = <<>> THEN 0 ELSE 2 * Len(actions) - 1) |->
        IF k % 2 = 1 THEN actions[(k + 1) \div 2] ELSE "','"]

\* the string written to the attribute image_transform_actions
ActionsString(actions) == <<"['">> \o Join(actions) \o <<"']">>

\* eval of that string: the list of the strings between the quotes; "['']" is
\* the list of one empty string
EvalActions(str) ==
    LET inner == SubSeq(str, 2, Len(str) - 1)
    IN  IF inner = <<>> THEN <<"">>
        ELSE [k \in 1..((Len(inner) + 1) \div 2) |-> inner[2 * k - 1]]

\* CoordTransformer(): a transformer that has been told nothing yet
NewTransform ==
    [x_pixels |-> None, y_pixels |-> None, pixel_aspectratio |-> None,
     transform_actions |-> <<>>]

\* CoordTransformer.set_transform_actions: keeps the actions it knows, in order
set_transform_actions(transform, actions) ==
    [transform EXCEPT !.transform_actions =
        SelectSeq(actions, LAMBDA a : a \in {"flip_up_down", "flip_left_right"})]

\* the machines the float to int32 casts of numpy differ on
Platforms == {"x86", "arm"}

\* a float assigned to an element of an 'i4' variable: truncated towards zero;
\* the cast of NaN or of an infinity is undefined, and gives what the machine's
\* instruction gives.  In: half pixels.  Out: whole pixels, in half pixels.
ToI4(v, platform) ==
    IF isnan(v) THEN (IF platform = "x86" THEN I4Min ELSE 0)
    ELSE IF v = Inf THEN (IF platform = "x86" THEN I4Min ELSE I4Max)
    ELSE IF v = NegInf THEN I4Min
    ELSE IF OffScale(v) THEN v
    ELSE IF v >= 0 THEN Px(v \div 2)
    ELSE 0 - Px((0 - v) \div 2)

\* a float assigned to an element of a 'f4' variable
ToF4(v) ==
    IF isnan(v) \/ IsInf(v) THEN v
    ELSE IF v <= F4Exact /\ 0 - v <= F4Exact THEN v
    ELSE 2 * (v \div 2)

ToF4Vec(u) == [k \in 1..3 |-> ToF4(u[k])]

\* an array assigned to an 'i4' variable, to an 'f4' variable of 3-vectors
I4Array(a, platform) ==
    Array(a.shape, [k \in 1..Len(a.data) |-> ToI4(a.data[k], platform)])

F4Array(a) == Array(a.shape, [k \in 1..Len(a.data) |-> ToF4Vec(a.data[k])])

\* RayData.save, lines 233-289: the file written, for a RayData that is fully
\* populated
FileOf(r, platform) ==
        [history |-> "CalCam_py output file",
         image_transform_actions |-> ActionsString(r.transform.transform_actions),
         ResultType |-> r.ResultType,
         RayEndCoords |-> F4Array(r.ray_end_coords),
         RayStartCoords |-> F4Array(r.ray_start_coords),
         PixelXLocation |-> I4Array(r.x, platform),
         PixelYLocation |-> I4Array(r.y, platform),
         Binning |-> IF r.binning # None THEN r.binning ELSE 0,
         image_original_shape |-> <<r.transform.x_pixels, r.transform.y_pixels>>,
         image_original_pixel_aspect |-> ToF4(r.transform.pixel_aspectratio)]

\* the steps of RayData.load, in order: each reads one item of the file, but
\* for "CoordTransformer", which reads nothing
LoadOrder ==
    <<"ResultType", "RayEndCoords", "RayStartCoords", "Binning", "PixelXLocation",
      "PixelYLocation", "CoordTransformer", "image_transform_actions",
      "image_original_shape", "image_original_pixel_aspect">>

\* lines 295-312: one step of load
LoadStep(r, f, item) ==
    CASE item = "ResultType" -> [r EXCEPT !.ResultType = f.ResultType]
      [] item = "RayEndCoords" -> [r EXCEPT !.ray_end_coords = f.RayEndCoords]
      [] item = "RayStartCoords" -> [r EXCEPT !.ray_start_coords = f.RayStartCoords]
      [] item = "Binning" ->
            IF f.Binning = 0 THEN [r EXCEPT !.binning = None, !.fullchip = FALSE]
            ELSE [r EXCEPT !.binning = f.Binning, !.fullchip = TRUE]
      [] item = "PixelXLocation" -> [r EXCEPT !.x = f.PixelXLocation]
      [] item = "PixelYLocation" -> [r EXCEPT !.y = f.PixelYLocation]
      [] item = "CoordTransformer" -> [r EXCEPT !.transform = NewTransform]
      [] item = "image_transform_actions" ->
            [r EXCEPT !.transform =
                set_transform_actions(r.transform, EvalActions(f.image_transform_actions))]
      [] item = "image_original_shape" ->
            [r EXCEPT !.transform.x_pixels = f.image_original_shape[1],
                      !.transform.y_pixels = f.image_original_shape[2]]
      [] item = "image_original_pixel_aspect" ->
            [r EXCEPT !.transform.pixel_aspectratio = f.image_original_pixel_aspect]

\* RayData.load, lines 293-314, on a file that lacks the items in missing: the
\* steps run in order, up to the first that finds its item missing
RECURSIVE LoadFrom(_, _, _, _)
LoadFrom(r, f, missing, k) ==
    IF k > Len(LoadOrder) THEN [rd |-> r, raised |-> ""]
    ELSE IF LoadOrder[k] \in missing
         THEN [rd |-> r, raised |-> IF LoadOrder[k] \in {"ResultType", "image_transform_actions"}
                                     THEN "AttributeError" ELSE "KeyError"]
         ELSE LoadFrom(LoadStep(r, f, LoadOrder[k]), f, missing, k + 1)

----------------------------------------------------------------------------
(* RayData: get_ray_lengths and get_ray_directions *)

\* the length of a vector: np.sqrt(np.sum(u ** 2))
VLen(u) == IF HasNaN(u) THEN NaN ELSE Sqrt(u[1] * u[1] + u[2] * u[2] + u[3] * u[3])

\* line 320: the sight-line length of every stored pixel
RayLength(r) ==
    Array(r.ray_end_coords.shape,
          [k \in 1..Len(r.ray_end_coords.data) |->
              VLen(VSub(r.ray_end_coords.data[k], r.ray_start_coords.data[k]))])

\* line 368: the unit vector of every stored pixel
RayDirs(r) ==
    Array(r.ray_end_coords.shape,
          [k \in 1..Len(r.ray_end_coords.data) |->
              VDiv(VSub(r.ray_end_coords.data[k], r.ray_start_coords.data[k]),
                   RayLength(r).data[k])])

\* CoordTransformer.display_to_original_image: the image with the actions undone,
\* last one first
RECURSIVE display_to_original_image(_, _, _)
display_to_original_image(transform, img, k) ==
    IF k = 0 \/ Len(img.shape) # 2 THEN img
    ELSE LET a == transform.transform_actions[k]
             r == img.shape[1]
             c == img.shape[2]
             at(i, j) == img.data[(i - 1) * c + j]
             flipped ==
                 IF a = "flip_left_right"
                 THEN [m \in 1..(r * c) |-> at(((m - 1) \div c) + 1, c - ((m - 1) % c))]
                 ELSE IF a = "flip_up_down"
                 THEN [m \in 1..(r * c) |-> at(r - ((m - 1) \div c), ((m - 1) % c) + 1)]
                 ELSE img.data
         IN  display_to_original_image(transform, Array(img.shape, flipped), k - 1)

\* lines 354-356: deltaR ** 2 for every stored pixel, in half pixels squared.  The
\* square root is increasing: the least deltaR is the least of these, and deltaR
\* is within PositionTol where its square is within the square of PositionTol.
DeltaR2(r, qx, qy) ==
    LET xflat == FlattenC(r.x)
        yflat == FlattenC(r.y)
    IN  [i \in 1..Len(xflat) |-> FAdd(FSubSq(xflat[i], qx), FSubSq(yflat[i], qy))]

\* np.nanmin: the least entry that is not NaN; NaN if there is none
NanMin(d) ==
    LET S == {d[i] : i \in DOMAIN d} \ {NaN}
    IN  IF S = {} THEN NaN ELSE CHOOSE m \in S : \A v \in S : m <= v

\* the first index of an entry that is not NaN, wherever the least one is
FirstNotNaN(d) ==
    CHOOSE i \in DOMAIN d : ~isnan(d[i]) /\ \A j \in 1..(i - 1) : isnan(d[j])

\* np.nanargmin: the first index of that entry
NanArgMin(d) ==
    CHOOSE i \in DOMAIN d : d[i] = NanMin(d) /\ \A j \in 1..(i - 1) : d[j] # NanMin(d)

\* np.min: NaN if any entry is NaN
Min(d) == IF \E i \in DOMAIN d : isnan(d[i]) THEN NaN ELSE NanMin(d)

\* np.argmin: the first NaN if there is one, else the first least entry
ArgMin(d) ==
    IF \E i \in DOMAIN d : isnan(d[i])
    THEN CHOOSE i \in DOMAIN d : isnan(d[i]) /\ \A j \in 1..(i - 1) : ~isnan(d[j])
    ELSE NanArgMin(d)

\* deltaR <= PositionTol, a comparison that NaN fails
WithinTol(m2, PositionTol) ==
    ~isnan(m2) /\ m2 <= Px(PositionTol) * Px(PositionTol)

NoRay == "No ray-traced pixel within PositionTol of requested pixel!"

\* lines 349-360: what the loop of get_ray_lengths finds for one query pixel
LengthAt(r, qx, qy, PositionTol) ==
    IF isnan(qx) \/ isnan(qy) THEN [raised |-> "", value |-> NaN]
    ELSE LET d == DeltaR2(r, qx, qy)
         IN  IF d # <<>> /\ WithinTol(NanMin(d), PositionTol)
             THEN [raised |-> "", value |-> FlattenC(RayLength(r))[NanArgMin(d)]]
             ELSE [raised |-> NoRay, value |-> NaN]

\* lines 400-409: what the loop of get_ray_directions finds for one query pixel
DirectionAt(r, qx, qy, PositionTol) ==
    LET d == DeltaR2(r, qx, qy)
    IN  IF d # <<>> /\ WithinTol(Min(d), PositionTol)
        THEN [raised |-> "", value |-> FlattenC(RayDirs(r))[ArgMin(d)]]
        ELSE [raised |-> NoRay, value |-> NaN3]

\* lines 339-340: the query pixels in display coordinates
QueryCoords(r, q) ==
    [x |-> IF q.Coords = "original" THEN original_to_display_x(r.transform, q.x, q.y) ELSE q.x,
     y |-> IF q.Coords = "original" THEN original_to_display_y(r.transform, q.x, q.y) ELSE q.y]

\* RayData.get_ray_lengths, lines 317-361: the exception raised, if any, and the
\* array returned
get_ray_lengths(r, q) ==
    IF q.x = NoObj /\ q.y = NoObj
    THEN [raised |-> "",
          value |-> IF r.fullchip = TRUE /\ q.Coords # "display"
                    THEN display_to_original_image(r.transform, RayLength(r),
                                                   Len(r.transform.transform_actions))
                    ELSE RayLength(r)]
    ELSE IF Shape(q.x) # Shape(q.y)
    THEN [raised |-> "x and y arrays must be the same shape!", value |-> NoObj]
    ELSE LET c == QueryCoords(r, q)
             x == FlattenF(c.x)
             y == FlattenF(c.y)
             at == [k \in 1..Len(x) |-> LengthAt(r, x[k], y[k], q.PositionTol)]
         IN  IF \E k \in 1..Len(x) : at[k].raised # ""
             THEN [raised |-> NoRay, value |-> NoObj]
             ELSE [raised |-> "",
                   value |-> UnflattenF([k \in 1..Len(x) |-> at[k].value], Shape(q.x))]

\* np.hstack([Xout, Yout, Zout]) reshaped to oldshape + (3,) in Fortran order:
\* the vector at a position is made of the entries size apart
StackF(Xout, Yout, Zout, shape) ==
    LET n == Len(Xout)
        flat == Xout \o Yout \o Zout
    IN  UnflattenF([k \in 1..n |-> <<flat[k], flat[k + n], flat[k + 2 * n]>>], shape)

\* RayData.get_ray_directions, lines 365-412
get_ray_directions(r, q) ==
    IF q.x = NoObj /\ q.y = NoObj
    THEN [raised |-> "",
          value |-> IF r.fullchip = TRUE /\ q.Coords # "display"
                    THEN display_to_original_image(r.transform, RayDirs(r),
                                                   Len(r.transform.transform_actions))
                    ELSE RayDirs(r)]
    ELSE IF Shape(q.x) # Shape(q.y)
    THEN [raised |-> "x and y arrays must be the same shape!", value |-> NoObj]
    ELSE LET c == QueryCoords(r, q)
             x == FlattenF(c.x)
             y == FlattenF(c.y)
             at == [k \in 1..Len(x) |-> DirectionAt(r, x[k], y[k], q.PositionTol)]
         IN  IF \E k \in 1..Len(x) : at[k].raised # ""
             THEN [raised |-> NoRay, value |-> NoObj]
             ELSE [raised |-> "",
                   value |-> StackF([k \in 1..Len(x) |-> at[k].value[1]],
                                    [k \in 1..Len(x) |-> at[k].value[2]],
                                    [k \in 1..Len(x) |-> at[k].value[3]], Shape(q.x))]

----------------------------------------------------------------------------
(* The RayData object: a cast fills it; save, load and the queries act on it *)

MaxQuery == 2

\* the default of PositionTol
PositionTolDefault == 3

Tolerances == {1, PositionTolDefault}

\* the pixels of the batches whose RayData is saved, loaded and queried
StoredPixels == {<<0, 0>>, <<Px(9), Px(8)>>, <<NaN, Px(1)>>}

\* batches of distinct pixels
StoredBatches ==
    {b \in UNION {[1..n -> StoredPixels] : n \in 1..MaxPix} :
        \A i, j \in DOMAIN b : b[i] = b[j] => i = j}

DataArgs ==
    FullChipArgs
    \cup {[x |-> XOf(b), y |-> YOf(b), binning |-> 1, Coords |-> "display"] :
             b \in StoredBatches}

\* the pixels asked for: next to a stored pixel, far from all, NaN
QueryPixels == {<<Px(1), Px(1)>>, <<Px(4), Px(4)>>, <<NaN, 0>>}

QueryBatches == UNION {[1..n -> QueryPixels] : n \in 1..MaxQuery}

QueryArgs ==
    {[x |-> NoObj, y |-> NoObj, PositionTol |-> PositionTolDefault, Coords |-> c] :
        c \in CoordSystems}
    \cup {[x |-> XOf(b), y |-> YOf(b), PositionTol |-> t, Coords |-> "display"] :
             b \in QueryBatches, t \in Tolerances}
    \cup {[x |-> XOf(b), y |-> YOf(b), PositionTol |-> PositionTolDefault, Coords |-> "original"] :
             b \in QueryBatches}
    \cup {[x |-> XOf(b), y |-> NoObj, PositionTol |-> PositionTolDefault, Coords |-> "display"] :
             b \in {c \in QueryBatches : Len(c) = 1}}

\* the items a file that some other program wrote, or that was cut short, lacks
MissingSets ==
    {{}, {"ResultType"}, {"Binning"}, {"PixelYLocation"}, {"image_transform_actions"},
     {"image_original_pixel_aspect"}}

NoQuery == [x |-> NoObj, y |-> NoObj, PositionTol |-> PositionTolDefault, Coords |-> "display"]

\* the last call on the RayData: its name, its arguments and what it returned
Call(op, q, value) == [op |-> op, q |-> q, value |-> value]

NoCall == Call("", NoQuery, NoObj)

InitData ==
    /\ caster = [verbose |-> FALSE, fitresults |-> NoObj, cad |-> NoObj]
    /\ Idle
    /\ rd = NewRayData /\ disk = NoObj /\ out = NoCall

\* every field of the RayData is set
Populated(r) ==
    /\ r.ResultType # "None" /\ r.x # NoObj /\ r.y # NoObj
    /\ r.ray_end_coords # NoObj /\ r.ray_start_coords # NoObj
    /\ r.transform # NoObj

Complete(r) ==
    /\ Populated(r)
    /\ r.transform.x_pixels # None /\ r.transform.y_pixels # None
    /\ r.transform.pixel_aspectratio # None

\* Results = RayCaster(fit, cad).raycast_pixels(...): the RayData is the one a
\* cast returns
Raycast(fit, cad, a) ==
    /\ out = NoCall
    /\ rd = NewRayData
    /\ rd' = RaycastPixels(fit, cad, a)
    /\ raised' = ""
    /\ out' = Call("raycast_pixels", NoQuery, NoObj)
    /\ UNCHANGED <<disk, castVars>>

\* RayData.save, of a RayData every field of which is set; platform is the
\* machine it runs on
Save(platform) ==
    /\ out = NoCall
    /\ Complete(rd)
    /\ disk' = FileOf(rd, platform)
    /\ raised' = ""
    /\ out' = Call("save", NoQuery, NoObj)
    /\ UNCHANGED <<rd, castVars>>

\* RayData.load, of the file on disk or of one like it that lacks some items
Load(missing) ==
    /\ out = NoCall
    /\ Populated(rd)
    /\ disk # NoObj
    /\ LET res == LoadFrom(rd, disk, missing, 1)
       IN  /\ rd' = res.rd
           /\ raised' = res.raised
    /\ out' = Call("load", NoQuery, NoObj)
    /\ UNCHANGED <<disk, castVars>>

\* RayData.load, line 294: there is no file
LoadNoFile ==
    /\ out = NoCall
    /\ disk = NoObj
    /\ raised' = "IOError"
    /\ out' = Call("load", NoQuery, NoObj)
    /\ UNCHANGED <<rd, disk, castVars>>

\* the transform can convert the query's coordinates
Convertible(r, q) == q.Coords = "display" \/ Complete(r)

\* RayData.get_ray_lengths
GetRayLengths(q) ==
    /\ out = NoCall
    /\ Populated(rd)
    /\ Convertible(rd, q)
    /\ LET res == get_ray_lengths(rd, q)
       IN  /\ raised' = res.raised
           /\ out' = Call("get_ray_lengths", q, res.value)
    /\ UNCHANGED <<rd, disk, castVars>>

\* RayData.get_ray_directions
GetRayDirections(q) ==
    /\ out = NoCall
    /\ Populated(rd)
    /\ Convertible(rd, q)
    /\ LET res == get_ray_directions(rd, q)
       IN  /\ raised' = res.raised
           /\ out' = Call("get_ray_directions", q, res.value)
    /\ UNCHANGED <<rd, disk, castVars>>

\* the call has returned or raised: the caller goes on
CallEnd ==
    /\ out # NoCall
    /\ out' = NoCall
    /\ raised' = ""
    /\ UNCHANGED <<rd, disk, castVars>>

NextData ==
    \/ \E f \in Fits, c \in CADModels, a \in DataArgs : Raycast(f, c, a)
    \/ \E p \in Platforms : Save(p)
    \/ \E m \in MissingSets : Load(m)
    \/ LoadNoFile
    \/ \E q \in QueryArgs : GetRayLengths(q)
    \/ \E q \in QueryArgs : GetRayDirections(q)
    \/ CallEnd

SpecData == InitData /\ [][NextData]_vars

----------------------------------------------------------------------------
(* Claims about raycast_pixels, checked under SpecCast *)

\* what the call in progress holds for flat index k, whether the arrays are still
\* flat (in the loop) or have their final shape (returned)
InCall == pc \in {"loop", "done"}

FlatOf(a) == IF pc = "done" THEN FlattenF(a) ELSE a.data

NPix == Len(valid_mask)

Visited == (1..NPix) \ inds

Called(k) == \E c \in calls : c[1] = k

AlwaysHits(cad) == \A d \in 1..Len(Dirs) : cad.vtkCellLocator[d] # 0

Explicit == InCall /\ args.x # NoObj

\* the pixel given at flat position k of an explicit batch
GivenX(k) == FlattenF(args.x)[k]

GivenY(k) == FlattenF(args.y)[k]

C3_HitMissPolicy ==
    InCall =>
        \A k \in Visited :
            valid_mask[k] =>
                LET start == FlatOf(Results.ray_start_coords)[k]
                    far == VAdd(start, VScale(caster.cad.max_ray_length, LOSDir[k]))
                    res == IntersectWithLine(caster.cad, start, far)
                    end == FlatOf(Results.ray_end_coords)[k]
                IN  /\ {c \in calls : c[1] = k} = {<<k, start, far>>}
                    /\ start = caster.fitresults.pupilpos
                    /\ res.retval # 0 => end = res.pos
                    /\ res.retval = 0 => end = far /\ (~HasNaN(LOSDir[k]) => ~HasNaN(end))

\* a cast has returned in which one ray hit the surface and another missed it
C3_Witness ==
    /\ pc = "done"
    /\ \E j, k \in 1..NPix :
          /\ valid_mask[j] /\ valid_mask[k]
          /\ ~HasNaN(LOSDir[j]) /\ ~HasNaN(LOSDir[k])
          /\ FlatOf(Results.ray_end_coords)[j]
                = VAdd(caster.fitresults.pupilpos, VScale(caster.cad.max_ray_length, LOSDir[j]))
          /\ FlatOf(Results.ray_end_coords)[k]
                # VAdd(caster.fitresults.pupilpos, VScale(caster.cad.max_ray_length, LOSDir[k]))

\* C4: whatever order the loop visits the pixels in, the RayData returned is the
\* one the loop run in index order returns: the same rayStart, rayEnd, x and y
\* at every position.
C4_OrderIndependent ==
    pc = "done" => Results = RaycastPixels(caster.fitresults, caster.cad, args)

\* a cast of several pixels, hits and misses among them, has returned after a
\* loop that did not end on the last index
C4_Witness ==
    /\ pc = "done" /\ NPix >= 2 /\ ind # NPix /\ ind # 0
    /\ \E j, k \in 1..NPix :
          LET far(m) == VAdd(caster.fitresults.pupilpos,
                             VScale(caster.cad.max_ray_length, LOSDir[m]))
          IN  /\ j < k /\ valid_mask[j] /\ valid_mask[k]
              /\ ~HasNaN(LOSDir[j]) /\ ~HasNaN(LOSDir[k])
              /\ FlatOf(Results.ray_end_coords)[j] # far(j)
              /\ FlatOf(Results.ray_end_coords)[k] = far(k)
              /\ Results = RaycastPixels(caster.fitresults, caster.cad, args)

Ceil(n, d) == (n + d - 1) \div d

\* C7 as stated: a full-chip cast at binning b on a sensor of W x H pixels
\* gives ceil(W/b) x ceil(H/b) pixel centres, b pixels apart from (b-1)/2 on,
\* with fullchip true and binning b.
C7_FullChipGrid ==
    (pc = "done" /\ args.x = NoObj) =>
        LET W == caster.fitresults.image_display_shape[1]
            H == caster.fitresults.image_display_shape[2]
            b == args.binning
            centres(n) == {(b - 1) + Px(b) * k : k \in 0..(Ceil(n, b) - 1)}
        IN  /\ Results.fullchip = TRUE
            /\ Results.binning = b
            /\ Results.x.shape = <<Ceil(H, b), Ceil(W, b)>>
            /\ {Results.x.data[m] : m \in 1..Len(Results.x.data)} = centres(W)
            /\ {Results.y.data[m] : m \in 1..Len(Results.y.data)} = centres(H)

\* C9: within one cast the estimate is computed at most once, at a step where
\* the elapsed time is above 10 and a ray has been cast, from that elapsed time,
\* the rays cast and the number of pixels; it is printed only if it is above 15;
\* and once it has been computed the flag is set, printed or not, so it is not
\* computed again.
C9_EstimateOnce ==
    /\ Len(est_log) <= 1
    /\ Len(printed) <= Len(est_log)
    /\ etime_printed = (est_log # <<>>)
    /\ (est_log # <<>>) => caster.verbose
    /\ \A j \in 1..Len(est_log) :
          LET e == est_log[j]
          IN  /\ e[1] > 10 /\ e[1] <= clock
              /\ e[2] >= 1 /\ e[2] <= n_done
              /\ e[3] = NPix
              /\ (printed = <<e>>) = (e[1] * e[3] > 15 * e[2])
              /\ printed \in {<<>>, <<e>>}

\* the estimate was computed and not printed, and the loop has cast a ray since
C9_Witness ==
    /\ pc = "loop" /\ est_log # <<>> /\ printed = <<>>
    /\ n_done > est_log[1][2]

\* the estimate was printed
C9_WitnessPrinted == pc = "done" /\ printed # <<>>

----------------------------------------------------------------------------
(* Claims about RayData, checked under SpecData *)

\* the RayData is, as it is now, the one the file on disk was saved from
SavedAsIs == Complete(rd) /\ \E p \in Platforms : disk = FileOf(rd, p)

\* C1 as stated: a load that succeeds on the file save wrote for a RayData
\* gives back that RayData's rayStart, rayEnd, pixel x and y, binning and
\* transform metadata (pixel counts, aspect ratio, ordered actions), whether
\* its pixel centres are whole, half-integers or NaN.
C1_RoundTrip ==
    [][(SavedAsIs /\ out'.op = "load" /\ raised' = "") =>
          /\ rd'.ray_start_coords = rd.ray_start_coords
          /\ rd'.ray_end_coords = rd.ray_end_coords
          /\ rd'.x = rd.x
          /\ rd'.y = rd.y
          /\ rd'.binning = rd.binning
          /\ rd'.transform = rd.transform]_vars

\* C8 as stated: a load that fails leaves every field of the RayData as it was
\* before the call.
C8_LoadAllOrNothing ==
    [][(out'.op = "load" /\ raised' # "") => rd' = rd]_vars

\* the call that has just returned or raised is op, with query pixels given as
\* two arrays of one shape
Queried(op) ==
    /\ out.op = op
    /\ out.q.x # NoObj /\ out.q.y # NoObj
    /\ Shape(out.q.x) = Shape(out.q.y)

\* the query pixels, in display coordinates and in the order of the output
QueryX == FlattenF(QueryCoords(rd, out.q).x)

QueryY == FlattenF(QueryCoords(rd, out.q).y)

NQuery == Len(QueryX)

FiniteQuery(k) == IsFinite(QueryX[k]) /\ IsFinite(QueryY[k])

StoredX == FlattenC(rd.x)

StoredY == FlattenC(rd.y)

\* the stored pixels that have a position
Usable == {i \in 1..Len(StoredX) : ~isnan(StoredX[i]) /\ ~isnan(StoredY[i])}

\* the square of the distance from stored pixel i to query pixel k
Dist2(i, k) == FAdd(FSubSq(StoredX[i], QueryX[k]), FSubSq(StoredY[i], QueryY[k]))

\* the stored pixels at the least distance from query pixel k
Nearest(k) == {i \in Usable : \A j \in Usable : Dist2(i, k) <= Dist2(j, k)}

\* no stored pixel is within the tolerance of query pixel k
NoneNear(k) ==
    \A i \in Usable : Dist2(i, k) > Px(out.q.PositionTol) * Px(out.q.PositionTol)

LengthOf(i) ==
    VLen(VSub(FlattenC(rd.ray_end_coords)[i], FlattenC(rd.ray_start_coords)[i]))

DirOf(i) ==
    VDiv(VSub(FlattenC(rd.ray_end_coords)[i], FlattenC(rd.ray_start_coords)[i]),
         LengthOf(i))

\* C5: get_ray_lengths with query pixels fails with "No ray-traced pixel within
\* PositionTol" exactly when some query pixel that is not NaN has no stored
\* pixel within the tolerance, and then returns nothing; when it succeeds, the
\* result at the position of each finite query pixel is the ray length of a
\* stored pixel at the least Euclidean distance from it.
C5_NearestWithinTol ==
    Queried("get_ray_lengths") =>
        /\ raised \in {"", NoRay}
        /\ (raised = NoRay) <=>
              \E k \in 1..NQuery : ~isnan(QueryX[k]) /\ ~isnan(QueryY[k]) /\ NoneNear(k)
        /\ raised = NoRay => out.value = NoObj
        /\ raised = "" =>
              /\ Shape(out.value) = Shape(out.q.x)
              /\ \A k \in 1..NQuery :
                    FiniteQuery(k) =>
                        \E i \in Nearest(k) : FlattenF(out.value)[k] = LengthOf(i)

\* a query has returned the length of a stored pixel that is not the first one,
\* where the first one has another length and is farther away
C5_Witness ==
    /\ Queried("get_ray_lengths") /\ raised = ""
    /\ \E k \in 1..NQuery :
          /\ FiniteQuery(k)
          /\ \E j \in Usable :
                /\ 1 \in Usable /\ j > 1
                /\ Nearest(k) = {j}
                /\ ~isnan(LengthOf(j)) /\ ~isnan(LengthOf(1))
                /\ LengthOf(j) # LengthOf(1)
                /\ FlattenF(out.value)[k] = LengthOf(j)

\* C6 as stated: neither query fails on account of a query pixel that is not
\* finite: a call with query pixels fails only if some finite query pixel has
\* no stored pixel within the tolerance, and a call that succeeds holds NaN at
\* the position of every query pixel that is not finite.
C6_NonFiniteNeverFails ==
    (Queried("get_ray_lengths") \/ Queried("get_ray_directions")) =>
        /\ raised # "" => \E k \in 1..NQuery : FiniteQuery(k) /\ NoneNear(k)
        /\ raised = "" =>
              \A k \in 1..NQuery :
                  ~FiniteQuery(k) =>
                      IF out.op = "get_ray_lengths"
                      THEN isnan(FlattenF(out.value)[k])
                      ELSE FlattenF(out.value)[k] = NaN3

\* C10 as stated: on any stored RayData, with NaN pixels or without, and for
\* finite query pixels, get_ray_directions fails exactly when get_ray_lengths
\* fails, and otherwise returns at each position the unit direction of the
\* nearest stored pixel whose length get_ray_lengths returns there.
C10_SameMatching ==
    (Queried("get_ray_directions") /\ \A k \in 1..NQuery : FiniteQuery(k)) =>
        LET lengths == get_ray_lengths(rd, out.q)
        IN  /\ (raised = NoRay) <=> (lengths.raised = NoRay)
            /\ raised = "" =>
                  \A k \in 1..NQuery :
                      \E i \in Nearest(k) :
                          /\ FlattenF(out.value)[k] = DirOf(i)
                          /\ FlattenF(lengths.value)[k] = LengthOf(i)

====
